---- MODULE Spec2Model ----
(***************************************************************************)
(* Model of TimeTracker (src/t.py): the session lifecycle (rotation of the *)
(* session folder), the two logging queues with their writer threads, the  *)
(* screenshot loop and the B2 upload worker, together with the disk they   *)
(* share and the start()/stop()/process-exit sequencing of main().         *)
(*                                                                         *)
(* A session folder session_<YYYYmmdd_HHMMSS> is identified by the clock   *)
(* second in which it was created: the name has one-second resolution, so  *)
(* two folders created in the same second are the same folder.             *)
(***************************************************************************)
EXTENDS Integers, Sequences, FiniteSets, TLC

\* ---------------------------------------------------------------- bounds
MaxTicks == 1           \* clock seconds that elapse during a behaviour
MaxEvents == 2          \* input/lock/process events put on event_queue
MaxSnaps == 1           \* process snapshots put on process_queue
MaxShots == 1           \* screenshots captured
MaxRecords == 2         \* events, snapshots and screenshots together
MaxStarts == 2          \* calls of start() per process
MaxRuns == 1             \* process restarts
MaxPolls == 2            \* iterations of process_monitor_loop
MaxPid == 2              \* largest process id
MaxProcs == 2            \* processes in one process list
ScenarioEvents == 5      \* events of the end-to-end scenario
ScenarioTicks == 2       \* clock seconds that elapse in the scenario
ScenarioInterval == 1    \* rotation interval of the scenario, in seconds
RotationInterval == 1   \* Config.FOLDER_ROTATION_INTERVAL, in clock seconds
FolderMaxSize == 2      \* Config.get_folder_max_size_bytes(), in records
ProcsPerSnapshot == 2   \* processes listed in one snapshot
T0 == 1                 \* clock second of the first construction
MaxLockEvents == 3      \* lock-state changes that the two detectors act on

None == -1
Gen == 1..MaxStarts
LastSecond ==
    IF MaxTicks > ScenarioTicks THEN T0 + MaxTicks ELSE T0 + ScenarioTicks
Sessions == 0..LastSecond

VARIABLES
    \* ---- disk (survives the process)
    dirs,                     \* session folders that exist under data_dir
    shotdirs,                 \* session folders whose screenshots/ exists
    files,                    \* [session -> [events, procs, shots]] file contents
    zips,                     \* [session -> archive] local session_*.zip files
    remote,                   \* [file name -> archive] objects in the bucket
    \* ---- TimeTracker fields
    current_session_dir, previous_session_dir, session_start_time,
    running, upload_to_b2,
    delete_after_upload,      \* configuration flag read by the constructor
    folder_rotation_interval, \* seconds after which a session is rotated
    folder_max_size_bytes,    \* folder size from which a session is rotated
    previous_processes,       \* the process list remembered by the process monitor
    is_locked,                \* the lock state last recorded
    event_queue, process_queue, completed_folders_queue,
    session_lock,             \* owner of _session_lock, or None
    \* ---- threads
    main,                     \* position of main(): "ready", "started", "stop_put", "stop_wait", "exited"
    ew, pw, ss, up,           \* per start(): event_writer, process_writer, screenshot_loop, b2_upload_worker
    starts,                   \* number of start() calls that took effect in this process
    lm,                       \* lock_screen_monitor_loop: position and the state it has read
    sf,                       \* capture_screenshot's access-denied branch: position
    flushed,                  \* per process_writer: lines of its snapshot already written out by the file buffer
    \* ---- environment
    now,                      \* datetime.now(), in whole seconds
    limit, used,              \* how often the environment may act, and has acted
    \* ---- history
    b2fault,                  \* __init__ switched a configured upload off
    hist

vars == << dirs, shotdirs, files, zips, remote,
           current_session_dir, previous_session_dir, session_start_time,
           running, upload_to_b2, delete_after_upload,
           folder_rotation_interval, folder_max_size_bytes, previous_processes,
           event_queue, process_queue, completed_folders_queue, session_lock,
           main, ew, pw, ss, up, starts, now, limit, used, b2fault,
           hist, is_locked, lm, sf, flushed >>

disk == << dirs, shotdirs, files, zips, remote >>
\* what only the constructor and the process monitor assign
untouched ==
    << limit, previous_processes, delete_after_upload,
       folder_rotation_interval, folder_max_size_bytes, b2fault,
       is_locked, lm, sf, flushed >>
threads == << ew, pw, ss, up >>

\* ------------------------------------------------------------- helpers
EmptyFiles == [events |-> <<>>, procs |-> <<>>, shots |-> <<>>]

Range(s) == { s[i] : i \in DOMAIN s }

RECURSIVE SortedSeq(_)
\* sorted(session_folders): ascending by folder name
SortedSeq(S) ==
    IF S = {} THEN <<>>
    ELSE LET m == CHOOSE x \in S : \A y \in S : x <= y
         IN  <<m>> \o SortedSeq(S \ {m})

\* _get_folder_size: every record line and every image counts one unit
FolderSize(f, s) == Len(f[s].events) + Len(f[s].procs) + Len(f[s].shots)

\* everything stored in a folder, as a set of tagged items
Contents(fr) ==
    { <<"events", x>> : x \in Range(fr.events) } \cup
    { <<"procs", x>> : x \in Range(fr.procs) } \cup
    { <<"shots", x>> : x \in Range(fr.shots) }

\* strftime("%Y%m%d_%H%M%S"): the folder name is the clock second
SessionName(t) == t

\* The part of the tracker that the session getters read and write.
SessState ==
    [ cur |-> current_session_dir, prev |-> previous_session_dir,
      start |-> session_start_time, dirs |-> dirs, shotdirs |-> shotdirs,
      q |-> completed_folders_queue,
      interval |-> folder_rotation_interval,
      maxsize |-> folder_max_size_bytes ]

\* which folder _create_new_session_folder puts on the upload queue
FolderQueuedOnRotation(st) == st.prev

\* _create_new_session_folder
CreateNewSessionFolder(st, upl, t) ==
    LET toq == FolderQueuedOnRotation(st)
        q1 == IF toq # None /\ toq \in st.dirs /\ upl
              THEN Append(st.q, toq) ELSE st.q
        folder == SessionName(t)
    IN  [ st EXCEPT !.cur = folder, !.prev = st.cur, !.start = t,
                    !.dirs = st.dirs \cup {folder},
                    !.shotdirs = st.shotdirs \cup {folder},
                    !.q = q1 ]

\* a time check that rotates only once the interval has been exceeded
CheckAndRotateFolder_StrictlyOlder(st, upl, t, f) ==
    IF st.cur = None \/ st.cur \notin st.dirs
    THEN CreateNewSessionFolder(st, upl, t)
    ELSE IF st.start = None
    THEN [st EXCEPT !.start = t]
    ELSE IF t - st.start > st.interval
    THEN CreateNewSessionFolder(st, upl, t)
    ELSE IF FolderSize(f, st.cur) >= st.maxsize
    THEN CreateNewSessionFolder(st, upl, t)
    ELSE st

\* _check_and_rotate_folder
CheckAndRotateFolder(st, upl, t, f) ==
    IF st.cur = None \/ st.cur \notin st.dirs
    THEN CreateNewSessionFolder(st, upl, t)
    ELSE IF st.start = None
    THEN [st EXCEPT !.start = t]
    ELSE IF t - st.start >= st.interval
    THEN CreateNewSessionFolder(st, upl, t)
    ELSE IF FolderSize(f, st.cur) >= st.maxsize
    THEN CreateNewSessionFolder(st, upl, t)
    ELSE st

\* _ensure_session_folder_exists
EnsureSessionFolderExists(st, upl, t) ==
    IF st.cur = None \/ st.cur \notin st.dirs
    THEN CreateNewSessionFolder(st, upl, t)
    ELSE [st EXCEPT !.shotdirs = @ \cup {st.cur}]

\* getters that take the current session as it is when its directory is gone
GetterBody_NoRecovery(st, upl, t, f) ==
    IF st.cur = None \/ st.cur \notin st.dirs
    THEN st
    ELSE EnsureSessionFolderExists(CheckAndRotateFolder(st, upl, t, f), upl, t)

\* the first two statements of every getter, run under _session_lock
GetterBody(st, upl, t, f) ==
    EnsureSessionFolderExists(CheckAndRotateFolder(st, upl, t, f), upl, t)

\* _queue_existing_folders_for_upload: what it puts on the queue
ExistingFoldersToQueue(d, cur) == SortedSeq({ x \in d : x # cur })


sess == << current_session_dir, previous_session_dir, session_start_time >>
queues == << event_queue, process_queue >>

\* ------------------------------------------------------- initial values
NoOwner == <<"none", 0>>
NoRec == [type |-> "none", id |-> 0]
NoArchive == [there |-> FALSE, items |-> {}, folder |-> None]

\* a file name that also depends on the run that uploads
RemoteKey_PerRun(s) == <<(s + used.runs) % (LastSecond + 1), "zip">>

\* remote_path = f"{folder_name}.zip"
RemoteKey(s) == <<s, "zip">>

\* the file names an upload can use
RemoteKeys == Sessions \X {"zip"}

NoWriter == [pc |-> "none", rec |-> NoRec, path |-> None]
NoShooter == [pc |-> "none", shot |-> 0, path |-> None]
NoWorker == [pc |-> "none", folder |-> None]

\* What a run has done so far:
\*   enq, appended, dropped  records enqueued, appended to a log file, dropped
\*                           with a printed error
\*   failed                  <<s, step>>: an upload attempt for s failed in step
\*   sealed                  sessions replaced as current by a rotation
\*   rotated                 sessions a time or size rotation has rotated away
\*                           from (the new folder may carry the same name)
\*   stale                   <<r, s>>: a rotation away from s had returned
\*                           when r was enqueued
\*   found                   the folders the constructor found on disk
\*   killed                  the process was killed rather than left main()
\*   polled                  the process list of the latest poll
\*   uploaded                sessions for which _upload_folder_to_b2 returned
\*                           True
\*   undeleted               <<s, what>>: deleting the folder or the zip of s
\*                           after its upload raised
\*   leftzip                 sessions whose archive could not be unlinked after
\*                           a failed transfer
\*   compressfails           how many compressions have failed
\*   again                   sessions uploaded while the bucket already held
\*                           an object with the same contents for them
\*   skipped                 folders the upload worker dequeued and skipped
\*                           because they no longer existed
\*   queued                  folders put on completed_folders_queue by a
\*                           rotation or by stop()
\*   why                     why the latest getter call rotated: "missing",
\*                           "time", "size", or "none" when it did not
NoHist ==
    [ enq |-> {}, appended |-> {}, dropped |-> {}, failed |-> {},
      sealed |-> {}, rotated |-> {}, stale |-> {}, found |-> {},
      killed |-> FALSE, polled |-> <<>>, again |-> {}, uploaded |-> {},
      undeleted |-> {}, leftzip |-> {}, compressfails |-> 0, why |-> "none",
      skipped |-> {}, queued |-> {} ]

\* the lock monitor between two iterations
NoMonitor == [pc |-> "idle", state |-> FALSE, id |-> 0]

\* the screenshot loop outside the access-denied branch
NoFailure == [pc |-> "idle", id |-> 0]

NoUse ==
    [ ticks |-> 0, events |-> 0, snaps |-> 0, shots |-> 0, runs |-> 0,
      polls |-> 0, locks |-> 0 ]

Limits ==
    [ ticks |-> MaxTicks, events |-> MaxEvents, snaps |-> MaxSnaps,
      shots |-> MaxShots, records |-> MaxRecords, runs |-> MaxRuns,
      starts |-> MaxStarts, polls |-> MaxPolls, locks |-> MaxLockEvents ]

\* records (events, snapshots, screenshots) produced so far
Produced == used.events + used.snaps + used.shots

\* TimeTracker.__init__ on a data_dir that holds the folders d, at second t,
\* with upload enabled or not (configuration, credentials, _init_b2 outcome)
Constructed(d, t, upl, ival, msz) ==
    LET st0 == [ cur |-> None, prev |-> None, start |-> None, dirs |-> d,
                 shotdirs |-> d, q |-> <<>>, interval |-> ival,
                 maxsize |-> msz ]
        st1 == CreateNewSessionFolder(st0, FALSE, t)
    IN  [st1 EXCEPT !.q = IF upl THEN ExistingFoldersToQueue(st1.dirs, st1.cur)
                          ELSE <<>>]

\* an upload switch that trusts the configuration alone
UploadEnabled_Configured(configured, credentials, initOk) == configured

\* self.upload_to_b2 at the end of __init__: configured and b2sdk present,
\* the three credentials given, and _init_b2 did not raise
UploadEnabled(configured, credentials, initOk) ==
    configured /\ credentials /\ initOk

\* upload was configured and then switched off by __init__
UploadFault(configured, credentials, initOk) ==
    configured /\ ~(credentials /\ initOk)

\* folders a previous run may have left behind: an older one, and one
\* created in the very second of the construction
Leftovers == SUBSET {T0 - 1, T0}

InitCfg(lim, left, upls, dels, ival, msz) ==
    /\ now = T0
    /\ folder_rotation_interval = ival
    /\ folder_max_size_bytes = msz
    /\ limit = lim
    /\ used = NoUse
    /\ upload_to_b2 \in upls
    /\ \E configured, credentials, initOk \in BOOLEAN :
         /\ upload_to_b2 = UploadEnabled(configured, credentials, initOk)
         /\ b2fault = UploadFault(configured, credentials, initOk)
    /\ delete_after_upload \in dels
    /\ previous_processes = <<>>
    /\ \E d \in left :
         LET st == Constructed(d, T0, upload_to_b2, ival, msz)
         IN  /\ dirs = st.dirs
             /\ shotdirs = st.shotdirs
             /\ current_session_dir = st.cur
             /\ previous_session_dir = st.prev
             /\ session_start_time = st.start
             /\ completed_folders_queue = st.q
             /\ hist = [NoHist EXCEPT !.found = d]
    /\ files = [s \in Sessions |-> EmptyFiles]
    /\ zips = [s \in Sessions |-> NoArchive]
    /\ remote = [k \in RemoteKeys |-> NoArchive]
    /\ running = FALSE
    /\ event_queue = <<>>
    /\ process_queue = <<>>
    /\ session_lock = NoOwner
    /\ main = "ready"
    /\ ew = [g \in Gen |-> NoWriter]
    /\ pw = [g \in Gen |-> NoWriter]
    /\ ss = [g \in Gen |-> NoShooter]
    /\ up = [g \in Gen |-> NoWorker]
    /\ starts = 0
    /\ is_locked = FALSE
    /\ lm = NoMonitor
    /\ sf = NoFailure
    /\ flushed = [g \in Gen |-> 0]

\* construction with the rotation thresholds of the configuration
InitWith(lim, left, upls, dels) ==
    InitCfg(lim, left, upls, dels, RotationInterval, FolderMaxSize)


\* ------------------------------------------------------ session getters
\* assign the tracker fields and the disk from a getter's result
ApplySess(st) ==
    /\ current_session_dir' = st.cur
    /\ previous_session_dir' = st.prev
    /\ session_start_time' = st.start
    /\ dirs' = st.dirs
    /\ shotdirs' = st.shotdirs
    /\ completed_folders_queue' = st.q

\* the session a getter call seals, if any
Sealing(st) ==
    IF st.cur # current_session_dir /\ current_session_dir # None
    THEN {current_session_dir} ELSE {}

\* the session a getter call rotates away from because its rotation interval
\* has elapsed or its folder has reached the size limit, if any
Rotating(st, t, f) ==
    IF /\ st.cur # None /\ st.cur \in st.dirs /\ st.start # None
       /\ \/ t - st.start >= st.interval
          \/ FolderSize(f, st.cur) >= st.maxsize
    THEN {st.cur} ELSE {}

\* the branch of _check_and_rotate_folder that a getter call takes
RotationReason(st, t, f) ==
    IF st.cur = None \/ st.cur \notin st.dirs THEN "missing"
    ELSE IF st.start = None THEN "none"
    ELSE IF t - st.start >= st.interval THEN "time"
    ELSE IF FolderSize(f, st.cur) >= st.maxsize THEN "size"
    ELSE "none"

\* a session lock that is also held for the length of an upload attempt
LockFree_SharedWithUpload ==
    /\ session_lock = NoOwner
    /\ \A g \in Gen : up[g].pc \notin {"compress", "upload", "cleanup"}

\* _session_lock can be acquired: no other thread is inside a getter
LockFree == session_lock = NoOwner

\* "with self._session_lock:" then _check_and_rotate_folder and
\* _ensure_session_folder_exists, by thread me
GetterEnter(me) ==
    /\ LockFree
    /\ session_lock' = me
    /\ LET st == GetterBody(SessState, upload_to_b2, now, files)
       IN  /\ ApplySess(st)
           /\ hist' = [hist EXCEPT
                          !.sealed = @ \cup Sealing(st),
                          !.rotated = @ \cup Rotating(SessState, now, files),
                          !.why = RotationReason(SessState, now, files),
                          !.queued = @ \cup Range(st.q)]

\* the session a getter returns a path into
ReturnedSession == current_session_dir

\* ------------------------------------------------------------ producers
\* log_event, called by the input listeners, the lock-screen monitor and the
\* process monitor (any of them may be in the middle of an iteration)
LogEvent ==
    /\ main # "exited"
    /\ starts >= 1
    /\ used.events < limit.events
    /\ Produced < limit.records
    /\ LET e == [type |-> "input", id |-> used.events + 1]
       IN  /\ event_queue' = Append(event_queue, e)
           /\ hist' = [hist EXCEPT !.enq = @ \cup {e},
                                   !.stale = @ \cup {<<e, x>> : x \in hist.sealed \cup hist.rotated}]
    /\ used' = [used EXCEPT !.events = @ + 1]
    /\ UNCHANGED << disk, sess, running, upload_to_b2, process_queue,
                    completed_folders_queue, session_lock, main, threads,
                    starts, now, untouched >>

\* log_processes, called by process_monitor_loop
LogProcesses ==
    /\ main # "exited"
    /\ starts >= 1
    /\ used.snaps < limit.snaps
    /\ Produced < limit.records
    /\ LET p == [type |-> "snapshot", id |-> used.snaps + 1]
       IN  /\ process_queue' = Append(process_queue, p)
           /\ hist' = [hist EXCEPT !.enq = @ \cup {p},
                                   !.stale = @ \cup {<<p, x>> : x \in hist.sealed \cup hist.rotated}]
    /\ used' = [used EXCEPT !.snaps = @ + 1]
    /\ UNCHANGED << disk, sess, running, upload_to_b2, event_queue,
                    completed_folders_queue, session_lock, main, threads,
                    starts, now, untouched >>

\* --------------------------------------------------------- event_writer
\* event = self.event_queue.get(timeout=1) succeeds
EwGet(g) ==
    /\ ew[g].pc = "idle"
    /\ event_queue # <<>>
    /\ ew' = [ew EXCEPT ![g].pc = "resolve", ![g].rec = Head(event_queue)]
    /\ event_queue' = Tail(event_queue)
    /\ UNCHANGED << disk, sess, running, upload_to_b2, process_queue,
                    completed_folders_queue, session_lock, main, pw, ss, up,
                    starts, now, untouched, used, hist >>

\* _get_events_file runs up to its return statement
EwResolve(g) ==
    /\ ew[g].pc = "resolve"
    /\ GetterEnter(<<"ew", g>>)
    /\ ew' = [ew EXCEPT ![g].pc = "ret"]
    /\ UNCHANGED << files, zips, remote, running, upload_to_b2, queues,
                    main, pw, ss, up, starts, now, untouched, used >>

\* "while self.running or not self.event_queue.empty()" is false
EwExit(g) ==
    /\ ew[g].pc = "idle"
    /\ ~running
    /\ event_queue = <<>>
    /\ ew' = [ew EXCEPT ![g].pc = "done"]
    /\ UNCHANGED << disk, sess, running, upload_to_b2, queues,
                    completed_folders_queue, session_lock, main, pw, ss, up,
                    starts, now, untouched, used, hist >>

\* _get_events_file returns current_session_dir / "events.jsonl"
EwReturn(g) ==
    /\ ew[g].pc = "ret"
    /\ ew' = [ew EXCEPT ![g].pc = "write", ![g].path = ReturnedSession]
    /\ session_lock' = NoOwner
    /\ UNCHANGED << disk, sess, running, upload_to_b2, queues,
                    completed_folders_queue, main, pw, ss, up,
                    starts, now, untouched, used, hist >>

\* an exception of the write that ends the writer thread
AfterWriteError_Unwound(w) == [pc |-> "done", rec |-> NoRec, path |-> None]

\* "except Exception as e: print(...)" inside the while loop: the record is
\* given up and the loop goes on
AfterWriteError(w) == [pc |-> "idle", rec |-> NoRec, path |-> None]

\* open(events_file, 'a') and f.write, or "Error writing event"
EwWrite(g) ==
    /\ ew[g].pc = "write"
    /\ IF ew[g].path \in dirs
       THEN /\ files' = [files EXCEPT ![ew[g].path].events = Append(@, ew[g].rec)]
            /\ hist' = [hist EXCEPT !.appended = @ \cup {ew[g].rec}]
       ELSE /\ files' = files
            /\ hist' = [hist EXCEPT !.dropped = @ \cup {ew[g].rec}]
    /\ ew' = [ew EXCEPT ![g] = IF ew[g].path \in dirs
                                   THEN [pc |-> "idle", rec |-> NoRec, path |-> None]
                                   ELSE AfterWriteError(ew[g])]
    /\ UNCHANGED << dirs, shotdirs, zips, remote, sess, running, upload_to_b2,
                    queues, completed_folders_queue, session_lock, main,
                    pw, ss, up, starts, now, untouched, used >>

\* ------------------------------------------------------- process_writer
\* processes = self.process_queue.get(timeout=1) succeeds
PwGet(g) ==
    /\ pw[g].pc = "idle"
    /\ process_queue # <<>>
    /\ pw' = [pw EXCEPT ![g].pc = "resolve", ![g].rec = Head(process_queue)]
    /\ process_queue' = Tail(process_queue)
    /\ UNCHANGED << disk, sess, running, upload_to_b2, event_queue,
                    completed_folders_queue, session_lock, main, ew, ss, up,
                    starts, now, untouched, used, hist >>

\* _get_processes_file runs up to its return statement
PwResolve(g) ==
    /\ pw[g].pc = "resolve"
    /\ GetterEnter(<<"pw", g>>)
    /\ pw' = [pw EXCEPT ![g].pc = "ret"]
    /\ UNCHANGED << files, zips, remote, running, upload_to_b2, queues,
                    main, ew, ss, up, starts, now, untouched, used >>

PwExit(g) ==
    /\ pw[g].pc = "idle"
    /\ ~running
    /\ process_queue = <<>>
    /\ pw' = [pw EXCEPT ![g].pc = "done"]
    /\ UNCHANGED << disk, sess, running, upload_to_b2, queues,
                    completed_folders_queue, session_lock, main, ew, ss, up,
                    starts, now, untouched, used, hist >>

PwReturn(g) ==
    /\ pw[g].pc = "ret"
    /\ pw' = [pw EXCEPT ![g].pc = "write", ![g].path = ReturnedSession]
    /\ session_lock' = NoOwner
    /\ UNCHANGED << disk, sess, running, upload_to_b2, queues,
                    completed_folders_queue, main, ew, ss, up,
                    starts, now, untouched, used, hist >>

\* the lines of one snapshot: one per process, in list order
SnapshotLines(p) == [i \in 1..ProcsPerSnapshot |-> <<p.id, i>>]

\* open(processes_file, 'a') and one f.write per process, for a snapshot
\* that fits the buffer of the file object: written out once, at the close
PwWrite(g) ==
    /\ pw[g].pc = "write"
    /\ flushed[g] = 0
    /\ IF pw[g].path \in dirs
       THEN /\ files' = [files EXCEPT ![pw[g].path].procs = @ \o SnapshotLines(pw[g].rec)]
            /\ hist' = [hist EXCEPT !.appended = @ \cup {pw[g].rec}]
       ELSE /\ files' = files
            /\ hist' = [hist EXCEPT !.dropped = @ \cup {pw[g].rec}]
    /\ pw' = [pw EXCEPT ![g] = IF pw[g].path \in dirs
                                   THEN [pc |-> "idle", rec |-> NoRec, path |-> None]
                                   ELSE AfterWriteError(pw[g])]
    /\ UNCHANGED << dirs, shotdirs, zips, remote, sess, running, upload_to_b2,
                    queues, completed_folders_queue, session_lock, main,
                    ew, ss, up, starts, now, untouched, used >>

\* what leaves the process_writer's variables alone
pwfree ==
    << dirs, shotdirs, zips, remote, sess, running, upload_to_b2, queues,
       completed_folders_queue, session_lock, main, ew, ss, up, starts, now,
       limit, previous_processes, delete_after_upload,
       folder_rotation_interval, folder_max_size_bytes, b2fault,
       is_locked, lm, sf, used >>

\* "for process in processes: f.write(...)" of a snapshot larger than the
\* buffer of the file object: the buffer fills inside the loop and the lines
\* written so far are appended to the file
PwFlush(g) ==
    /\ pw[g].pc = "write"
    /\ pw[g].path \in dirs
    /\ \E k \in (flushed[g] + 1)..(ProcsPerSnapshot - 1) :
         /\ files' = [files EXCEPT ![pw[g].path].procs =
                          @ \o SubSeq(SnapshotLines(pw[g].rec), flushed[g] + 1, k)]
         /\ flushed' = [flushed EXCEPT ![g] = k]
    /\ UNCHANGED << pwfree, pw, hist >>

\* the end of the with block after a flush: the rest of the buffer is
\* appended to the file, which is closed
PwClose(g) ==
    /\ pw[g].pc = "write"
    /\ flushed[g] > 0
    /\ files' = IF pw[g].path \in dirs
                THEN [files EXCEPT ![pw[g].path].procs =
                          @ \o SubSeq(SnapshotLines(pw[g].rec), flushed[g] + 1,
                                      ProcsPerSnapshot)]
                ELSE files
    /\ hist' = [hist EXCEPT !.appended = @ \cup {pw[g].rec}]
    /\ pw' = [pw EXCEPT ![g] = [pc |-> "idle", rec |-> NoRec, path |-> None]]
    /\ flushed' = [flushed EXCEPT ![g] = 0]
    /\ UNCHANGED pwfree

\* ------------------------------------------------------ screenshot_loop
\* "while self.running:" is true; capture_screenshot grabs the monitor
SsBegin(g) ==
    /\ ss[g].pc = "idle"
    /\ running
    /\ used.shots < limit.shots
    /\ Produced < limit.records
    /\ ss' = [ss EXCEPT ![g].pc = "resolve", ![g].shot = used.shots + 1]
    /\ used' = [used EXCEPT !.shots = @ + 1]
    /\ UNCHANGED << disk, sess, running, upload_to_b2, queues,
                    completed_folders_queue, session_lock, main, ew, pw, up,
                    starts, now, untouched, hist >>

SsExit(g) ==
    /\ ss[g].pc = "idle"
    /\ ~running
    /\ ss' = [ss EXCEPT ![g].pc = "done"]
    /\ UNCHANGED << disk, sess, running, upload_to_b2, queues,
                    completed_folders_queue, session_lock, main, ew, pw, up,
                    starts, now, untouched, used, hist >>

\* _get_screenshots_dir up to "screenshots_dir = ..."
SsResolve(g) ==
    /\ ss[g].pc = "resolve"
    /\ GetterEnter(<<"ss", g>>)
    /\ ss' = [ss EXCEPT ![g].pc = "ret"]
    /\ UNCHANGED << files, zips, remote, running, upload_to_b2, queues,
                    main, ew, pw, up, starts, now, untouched, used >>

\* _get_screenshots_dir: screenshots_dir.mkdir(parents=True, exist_ok=True)
\* and return
SsReturn(g) ==
    /\ ss[g].pc = "ret"
    /\ ss' = [ss EXCEPT ![g].pc = "save", ![g].path = ReturnedSession]
    /\ dirs' = dirs \cup {current_session_dir}
    /\ shotdirs' = shotdirs \cup {current_session_dir}
    /\ session_lock' = NoOwner
    /\ UNCHANGED << files, zips, remote, sess, running, upload_to_b2, queues,
                    completed_folders_queue, main, ew, pw, up,
                    starts, now, untouched, used, hist >>

\* a capture that also writes its event into the log itself
Saved_AndLogged(fr, shot) ==
    [fr EXCEPT !.shots = Append(@, shot),
               !.events = Append(@, [type |-> "screenshot", id |-> shot])]

\* img.save(filepath, format="JPEG", ...): one more image file in the folder
Saved(fr, shot) == [fr EXCEPT !.shots = Append(@, shot)]

\* img.save(filepath), or "Error capturing screenshot" and no event
SsSave(g) ==
    /\ ss[g].pc = "save"
    /\ IF ss[g].path \in shotdirs
       THEN /\ files' = [files EXCEPT ![ss[g].path] = Saved(@, ss[g].shot)]
            /\ ss' = [ss EXCEPT ![g].pc = "log"]
       ELSE /\ files' = files
            /\ ss' = [ss EXCEPT ![g] = [pc |-> "idle", shot |-> 0, path |-> None]]
    /\ UNCHANGED << dirs, shotdirs, zips, remote, sess, running, upload_to_b2,
                    queues, completed_folders_queue, session_lock, main,
                    ew, pw, up, starts, now, untouched, used, hist >>

\* self.log_event({"type": "screenshot", "data": screenshot_data})
SsLog(g) ==
    /\ ss[g].pc = "log"
    /\ LET e == [type |-> "screenshot", id |-> ss[g].shot]
       IN  /\ event_queue' = Append(event_queue, e)
           /\ hist' = [hist EXCEPT !.enq = @ \cup {e},
                                   !.stale = @ \cup {<<e, x>> : x \in hist.sealed \cup hist.rotated}]
    /\ ss' = [ss EXCEPT ![g] = [pc |-> "idle", shot |-> 0, path |-> None]]
    /\ UNCHANGED << disk, sess, running, upload_to_b2, process_queue,
                    completed_folders_queue, session_lock, main, ew, pw, up,
                    starts, now, untouched, used >>

\* ------------------------------------------------------ lock-state events
\* what the lock-state detectors leave alone
lockfree ==
    << disk, sess, running, upload_to_b2, process_queue,
       completed_folders_queue, session_lock, main, threads, starts, now,
       limit, previous_processes, delete_after_upload,
       folder_rotation_interval, folder_max_size_bytes, b2fault, flushed >>

\* log_event of a lock-state event
LockEvent(type, id) == [type |-> type, id |-> id]

\* the event the monitor logs for the state it has read
MonitorEvent(state, id) ==
    LockEvent(IF state THEN "screen_locked" ELSE "screen_unlocked", id)

\* lock_screen_monitor_loop: "current_lock_state = self.check_lock_screen()",
\* "if current_lock_state != self.is_locked"
LmRead ==
    /\ running
    /\ lm.pc = "idle"
    /\ used.locks < limit.locks
    /\ \E current \in BOOLEAN :
         /\ current # is_locked
         /\ lm' = [pc |-> "log", state |-> current, id |-> used.locks + 1]
    /\ used' = [used EXCEPT !.locks = @ + 1]
    /\ UNCHANGED << lockfree, event_queue, is_locked, sf, hist >>

\* lock_screen_monitor_loop: self.log_event(screen_locked / screen_unlocked)
LmLog ==
    /\ lm.pc = "log"
    /\ LET e == MonitorEvent(lm.state, lm.id)
       IN  /\ event_queue' = Append(event_queue, e)
           /\ hist' = [hist EXCEPT !.enq = @ \cup {e},
                                   !.stale = @ \cup {<<e, x>> : x \in hist.sealed \cup hist.rotated}]
    /\ lm' = [lm EXCEPT !.pc = "set"]
    /\ UNCHANGED << lockfree, is_locked, sf, used >>

\* lock_screen_monitor_loop: self.is_locked = current_lock_state
LmSet ==
    /\ lm.pc = "set"
    /\ is_locked' = lm.state
    /\ lm' = NoMonitor
    /\ UNCHANGED << lockfree, event_queue, sf, used, hist >>

LockMonitor == LmRead \/ LmLog \/ LmSet

\* capture_screenshot fails with "access"/"denied": "if not self.is_locked"
SfRead ==
    /\ running
    /\ sf.pc = "idle"
    /\ used.locks < limit.locks
    /\ ~is_locked
    /\ sf' = [pc |-> "log", id |-> used.locks + 1]
    /\ used' = [used EXCEPT !.locks = @ + 1]
    /\ UNCHANGED << lockfree, event_queue, is_locked, lm, hist >>

\* capture_screenshot: self.log_event(screen_locked, detected_by screenshot_failure)
SfLog ==
    /\ sf.pc = "log"
    /\ LET e == LockEvent("screen_locked", sf.id)
       IN  /\ event_queue' = Append(event_queue, e)
           /\ hist' = [hist EXCEPT !.enq = @ \cup {e},
                                   !.stale = @ \cup {<<e, x>> : x \in hist.sealed \cup hist.rotated}]
    /\ sf' = [sf EXCEPT !.pc = "set"]
    /\ UNCHANGED << lockfree, is_locked, lm, used >>

\* capture_screenshot: self.is_locked = True
SfSet ==
    /\ sf.pc = "set"
    /\ is_locked' = TRUE
    /\ sf' = NoFailure
    /\ UNCHANGED << lockfree, event_queue, lm, used, hist >>

ShotFailure == SfRead \/ SfLog \/ SfSet

\* ----------------------------------------------------- b2_upload_worker
\* a worker that starts the upload of whatever it has dequeued
AfterDequeue_NoCheck(f, d) == [pc |-> "compress", folder |-> f]

\* "if not folder_path.exists(): ... continue", else _upload_folder_to_b2
AfterDequeue(f, d) ==
    IF f \in d THEN [pc |-> "compress", folder |-> f]
    ELSE [pc |-> "idle", folder |-> None]

\* completed_folders_queue.get succeeds; "if not folder_path.exists(): continue"
UpGet(g) ==
    /\ up[g].pc = "idle"
    /\ completed_folders_queue # <<>>
    /\ LET f == Head(completed_folders_queue)
       IN  /\ up' = [up EXCEPT ![g] = AfterDequeue(f, dirs)]
           /\ hist' = [hist EXCEPT !.skipped = @ \cup
                                       IF f \in dirs THEN {} ELSE {f}]
    /\ completed_folders_queue' = Tail(completed_folders_queue)
    /\ UNCHANGED << disk, sess, running, upload_to_b2, queues, session_lock,
                    main, ew, pw, ss, starts, now, untouched, used >>

UpExit(g) ==
    /\ up[g].pc = "idle"
    /\ ~running
    /\ completed_folders_queue = <<>>
    /\ up' = [up EXCEPT ![g].pc = "done"]
    /\ UNCHANGED << disk, sess, running, upload_to_b2, queues,
                    completed_folders_queue, session_lock, main, ew, pw, ss,
                    starts, now, untouched, used, hist >>

\* what _compress_folder_to_zip packs: the files the folder holds
Archived(f, s) == Contents(f[s])

\* _compress_folder_to_zip returns the archive
UpCompress(g) ==
    /\ up[g].pc = "compress"
    /\ zips' = [zips EXCEPT ![up[g].folder] =
                    [ there |-> TRUE, items |-> Archived(files, up[g].folder),
                      folder |-> up[g].folder ]]
    /\ up' = [up EXCEPT ![g].pc = "upload"]
    /\ UNCHANGED << dirs, shotdirs, files, remote, sess, running, upload_to_b2,
                    queues, completed_folders_queue, session_lock, main,
                    ew, pw, ss, starts, now, untouched, used, hist >>

\* a worker that goes on to the transfer after a failed compression
AfterFailedCompress_Transfer(w) == [w EXCEPT !.pc = "upload"]

\* "if not zip_path or not zip_path.exists(): return False", back in the
\* worker's loop
AfterFailedCompress(w) == [pc |-> "idle", folder |-> None]

\* _compress_folder_to_zip raises and returns None; a partial archive may
\* stay behind
UpCompressFail(g) ==
    /\ up[g].pc = "compress"
    /\ \E partial \in BOOLEAN :
         zips' = IF partial
                 THEN [zips EXCEPT ![up[g].folder] =
                          [there |-> TRUE, items |-> {}, folder |-> up[g].folder]]
                 ELSE zips
    /\ hist' = [hist EXCEPT !.failed = @ \cup {<<up[g].folder, "compress">>},
                            !.compressfails = @ + 1]
    /\ up' = [up EXCEPT ![g] = AfterFailedCompress(up[g])]
    /\ UNCHANGED << dirs, shotdirs, files, remote, sess, running, upload_to_b2,
                    queues, completed_folders_queue, session_lock, main,
                    ew, pw, ss, starts, now, untouched, used >>

\* upload_local_file succeeds: the object <folder name>.zip now holds the archive
UpUpload(g) ==
    /\ up[g].pc = "upload"
    /\ zips[up[g].folder].there
    /\ remote' = [remote EXCEPT ![RemoteKey(up[g].folder)] = zips[up[g].folder]]
    /\ hist' = [hist EXCEPT !.again = @ \cup
                    IF remote[RemoteKey(up[g].folder)] = zips[up[g].folder]
                    THEN {up[g].folder} ELSE {}]
    /\ up' = [up EXCEPT ![g].pc = "cleanup"]
    /\ UNCHANGED << dirs, shotdirs, files, zips, sess, running, upload_to_b2,
                    queues, completed_folders_queue, session_lock, main,
                    ew, pw, ss, starts, now, untouched, used >>

\* local archives if the failure branch did not unlink at all
ZipsAfterFailedUpload_Kept(z, s, unlinkOk) == z

\* "Clean up zip file if upload failed": zip_path.unlink() inside
\* "try: ... except: pass"
ZipsAfterFailedUpload(z, s, unlinkOk) ==
    IF unlinkOk THEN [z EXCEPT ![s] = NoArchive] ELSE z

\* upload_local_file raises: the archive is unlinked unless unlink raises
\* too, the folder stays
UpUploadFail(g) ==
    /\ up[g].pc = "upload"
    /\ \E unlinkOk \in BOOLEAN :
         /\ zips' = ZipsAfterFailedUpload(zips, up[g].folder, unlinkOk)
         /\ hist' = [hist EXCEPT
                        !.failed = @ \cup {<<up[g].folder, "upload">>},
                        !.leftzip = @ \cup
                            IF unlinkOk \/ ~zips[up[g].folder].there THEN {}
                            ELSE {up[g].folder}]
    /\ up' = [up EXCEPT ![g] = [pc |-> "idle", folder |-> None]]
    /\ UNCHANGED << dirs, shotdirs, files, remote, sess, running, upload_to_b2,
                    queues, completed_folders_queue, session_lock, main,
                    ew, pw, ss, starts, now, untouched, used >>

\* a result of _upload_folder_to_b2 that depends on the two deletions
CleanupResult_Strict(rmOk, unlinkOk) == rmOk /\ unlinkOk

\* what _upload_folder_to_b2 returns after step 3: "return True"
CleanupResult(rmOk, unlinkOk) == TRUE

\* the "Failed to delete ..." messages of step 3 for folder s
DeleteFailures(s, rmOk, unlinkOk) ==
    (IF rmOk /\ s \in dirs THEN {} ELSE {<<s, "folder">>}) \cup
    (IF unlinkOk /\ zips[s].there THEN {} ELSE {<<s, "zip">>})

\* what shutil.rmtree(folder_path) and zip_path.unlink() leave on disk, when
\* each of them succeeds or raises
Cleanup(g, rmOk, unlinkOk) ==
    /\ up[g].pc = "cleanup"
    /\ hist' = [hist EXCEPT
                   !.uploaded = @ \cup
                       IF CleanupResult(rmOk, unlinkOk) THEN {up[g].folder}
                       ELSE {},
                   !.undeleted = @ \cup
                       DeleteFailures(up[g].folder, rmOk, unlinkOk)]
    /\ IF rmOk /\ up[g].folder \in dirs
       THEN /\ dirs' = dirs \ {up[g].folder}
            /\ shotdirs' = shotdirs \ {up[g].folder}
            /\ files' = [files EXCEPT ![up[g].folder] = EmptyFiles]
       ELSE UNCHANGED << dirs, shotdirs, files >>
    /\ zips' = IF unlinkOk THEN [zips EXCEPT ![up[g].folder] = NoArchive]
               ELSE zips
    /\ up' = [up EXCEPT ![g] = [pc |-> "idle", folder |-> None]]
    /\ UNCHANGED << remote, sess, running, upload_to_b2, queues,
                    completed_folders_queue, session_lock, main,
                    ew, pw, ss, starts, now, untouched, used >>

\* "Step 3: Delete folder and zip after successful upload": both succeed
UpCleanup(g) == Cleanup(g, TRUE, TRUE)

\* Step 3 where rmtree or unlink raises ("Failed to delete ...")
UpCleanupFail(g) ==
    \E rmOk \in BOOLEAN, unlinkOk \in BOOLEAN :
        /\ ~(rmOk /\ unlinkOk)
        /\ Cleanup(g, rmOk, unlinkOk)

\* ------------------------------------------------- process_monitor_loop
Pids == 0..MaxPid
ProcNames == {"a", "b"}
Procs == [pid : Pids, name : ProcNames]

\* what get_running_processes can return: no pid twice; an empty list when
\* psutil.process_iter raises
ProcessLists ==
    { c \in UNION { [1..n -> Procs] : n \in 0..MaxProcs } :
        \A i, j \in DOMAIN c : c[i].pid = c[j].pid => i = j }

\* "if pid": Python truth of an integer
Truthy(pid) == pid # 0

PidsOf(c) == { c[i].pid : i \in DOMAIN c }

\* detect_process_changes: previous is the remembered dict in insertion order
DetectProcessChanges(previous, current) ==
    LET current_pids == { pid \in PidsOf(current) : Truthy(pid) }
        IsStopped(p) == p.pid \notin current_pids
        IsStarted(p) == Truthy(p.pid) /\ p.pid \notin PidsOf(previous)
    IN  [ started |-> SelectSeq(current, IsStarted),
          stopped |-> SelectSeq(previous, IsStopped) ]

\* the events process_monitor_loop hands to log_event for one list of changes
ProcessEvents(kind, changed) ==
    [ i \in DOMAIN changed |-> [type |-> kind, id |-> changed[i].pid] ]

\* a monitor that forgets the list it has just seen
Remembered_Nothing(processes) == << >>

\* the dict process_monitor_loop remembers: {pid: proc for proc if pid}
Remembered(processes) ==
    LET HasPid(p) == Truthy(p.pid) IN SelectSeq(processes, HasPid)

\* one iteration of process_monitor_loop with the list "processes"
Poll ==
    /\ running
    /\ used.polls < limit.polls
    /\ used' = [used EXCEPT !.polls = @ + 1]
    /\ \E processes \in ProcessLists :
         /\ hist' = [hist EXCEPT !.polled = processes]
         /\ IF processes # <<>>
            THEN LET changes == DetectProcessChanges(previous_processes, processes)
                 IN  /\ event_queue' =
                          event_queue
                            \o ProcessEvents("process_started", changes.started)
                            \o ProcessEvents("process_stopped", changes.stopped)
                     /\ process_queue' =
                          Append(process_queue,
                                 [type |-> "snapshot", id |-> used.polls + 1])
                     /\ previous_processes' = Remembered(processes)
            ELSE UNCHANGED << event_queue, process_queue, previous_processes >>
    /\ UNCHANGED << disk, sess, running, upload_to_b2, completed_folders_queue,
                    session_lock, main, threads, starts, now, limit,
                    delete_after_upload, folder_rotation_interval,
                    folder_max_size_bytes, b2fault, is_locked, lm, sf,
                    flushed >>

\* ------------------------------------------------- start, stop and main
\* start(): sets running and starts one thread of each kind
Start ==
    /\ main = "ready"
    /\ ~running
    /\ starts < limit.starts
    /\ running' = TRUE
    /\ starts' = starts + 1
    /\ ew' = [ew EXCEPT ![starts + 1] = [NoWriter EXCEPT !.pc = "idle"]]
    /\ pw' = [pw EXCEPT ![starts + 1] = [NoWriter EXCEPT !.pc = "idle"]]
    /\ ss' = [ss EXCEPT ![starts + 1] = [NoShooter EXCEPT !.pc = "idle"]]
    /\ up' = [up EXCEPT ![starts + 1] =
                  IF upload_to_b2 THEN [NoWorker EXCEPT !.pc = "idle"] ELSE NoWorker]
    /\ main' = "started"
    /\ UNCHANGED << disk, sess, upload_to_b2, queues, completed_folders_queue,
                    session_lock, now, untouched, used, hist >>

\* stop(): self.running = False
StopFlag ==
    /\ main = "started"
    /\ running
    /\ running' = FALSE
    /\ main' = "stop_put"
    /\ UNCHANGED << disk, sess, upload_to_b2, queues, completed_folders_queue,
                    session_lock, threads, starts, now, untouched, used, hist >>

\* stop(): "Queue current folder for upload if enabled"
StopPut ==
    /\ main = "stop_put"
    /\ completed_folders_queue' =
         IF upload_to_b2 /\ current_session_dir # None /\ current_session_dir \in dirs
         THEN Append(completed_folders_queue, current_session_dir)
         ELSE completed_folders_queue
    /\ hist' = [hist EXCEPT !.queued = @ \cup Range(completed_folders_queue')]
    /\ main' = "stop_wait"
    /\ UNCHANGED << disk, sess, running, upload_to_b2, queues, session_lock,
                    threads, starts, now, untouched, used >>

\* a wait for the uploads that has no timeout
UploadWaitOver_Drained(timedOut) == completed_folders_queue = <<>>

\* "while not self.completed_folders_queue.empty() and
\* (time.time() - start_time) < timeout" has ended
UploadWaitOver(timedOut) == completed_folders_queue = <<>> \/ timedOut

\* stop(): the listeners are stopped, the screenshot thread is joined for at
\* most 5 s, the upload queue is polled for at most 60 s; stop() returns
StopReturn ==
    /\ main = "stop_wait"
    /\ \E timedOut \in BOOLEAN : UploadWaitOver(timedOut)
    /\ main' = "ready"
    /\ UNCHANGED << disk, sess, running, upload_to_b2, queues,
                    completed_folders_queue, session_lock, threads, starts,
                    now, untouched, used, hist >>

\* the process ends: its memory and its (daemon) threads are gone
Gone(killed) ==
    /\ main' = "exited"
    /\ running' = FALSE
    /\ event_queue' = <<>>
    /\ process_queue' = <<>>
    /\ completed_folders_queue' = <<>>
    /\ session_lock' = NoOwner
    /\ current_session_dir' = None
    /\ previous_session_dir' = None
    /\ session_start_time' = None
    /\ ew' = [g \in Gen |-> NoWriter]
    /\ pw' = [g \in Gen |-> NoWriter]
    /\ ss' = [g \in Gen |-> NoShooter]
    /\ up' = [g \in Gen |-> NoWorker]
    /\ previous_processes' = <<>>
    /\ lm' = NoMonitor
    /\ sf' = NoFailure
    /\ flushed' = [g \in Gen |-> 0]
    /\ hist' = [hist EXCEPT !.killed = killed]
    /\ UNCHANGED << disk, upload_to_b2, starts, now, limit, used,
                    delete_after_upload, folder_rotation_interval,
                    folder_max_size_bytes, b2fault, is_locked >>

\* main(): stop() has returned and main returns
Exit ==
    /\ main = "ready"
    /\ starts >= 1
    /\ Gone(FALSE)

\* the process is killed or crashes
Kill ==
    /\ main # "exited"
    /\ Gone(TRUE)

\* the next process: TimeTracker.__init__ on the disk as it is
Restart ==
    /\ main = "exited"
    /\ used.runs < limit.runs
    /\ used' = [used EXCEPT !.runs = @ + 1]
    /\ \E configured, credentials, initOk \in BOOLEAN :
         /\ upload_to_b2' = UploadEnabled(configured, credentials, initOk)
         /\ b2fault' = UploadFault(configured, credentials, initOk)
    /\ LET st == Constructed(dirs, now, upload_to_b2',
                              folder_rotation_interval, folder_max_size_bytes)
       IN  ApplySess(st)
    /\ hist' = [NoHist EXCEPT !.found = dirs]
    /\ main' = "ready"
    /\ starts' = 0
    /\ is_locked' = FALSE
    /\ UNCHANGED << files, zips, remote, running, queues, session_lock,
                    threads, now, limit, lm, sf, flushed,
                    previous_processes, delete_after_upload,
                    folder_rotation_interval, folder_max_size_bytes >>

\* a second passes
Tick ==
    /\ used.ticks < limit.ticks
    /\ now' = now + 1
    /\ used' = [used EXCEPT !.ticks = @ + 1]
    /\ UNCHANGED << disk, sess, running, upload_to_b2, queues,
                    completed_folders_queue, session_lock, main, threads,
                    starts, untouched, hist >>

\* ------------------------------------------------------ specifications
EventWriter ==
    \E g \in Gen :
        EwGet(g) \/ EwResolve(g) \/ EwExit(g) \/ EwReturn(g) \/ EwWrite(g)

ProcessWriter ==
    \E g \in Gen :
        PwGet(g) \/ PwResolve(g) \/ PwExit(g) \/ PwReturn(g) \/ PwWrite(g)

Shooter ==
    \E g \in Gen :
        \/ SsBegin(g) \/ SsExit(g) \/ SsResolve(g) \/ SsReturn(g)
        \/ SsSave(g) \/ SsLog(g)

Uploader ==
    \E g \in Gen :
        \/ UpGet(g) \/ UpExit(g) \/ UpCompress(g) \/ UpUpload(g) \/ UpCleanup(g)

UploaderFails ==
    \E g \in Gen : UpCompressFail(g) \/ UpUploadFail(g) \/ UpCleanupFail(g)

\* One run of the process, started once: producers, both writers, the
\* screenshot loop and the upload worker, with upload enabled or disabled.
Init ==
    InitWith([Limits EXCEPT !.starts = 1, !.runs = 0], {{}}, BOOLEAN, {FALSE})

Next ==
    \/ LogEvent \/ LogProcesses
    \/ EventWriter \/ ProcessWriter \/ Shooter \/ Uploader
    \/ Start \/ StopFlag \/ StopPut \/ StopReturn \/ Exit
    \/ Tick

Spec == Init /\ [][Next]_vars

\* The logging pipeline alone: the producers of events and snapshots, the two
\* writers and the upload worker, around one start() and stop().
InitLog ==
    InitWith([Limits EXCEPT !.starts = 1, !.runs = 0, !.shots = 0], {{}},
             BOOLEAN, {FALSE})

NextLog ==
    \/ LogEvent \/ LogProcesses
    \/ EventWriter \/ ProcessWriter \/ Uploader
    \/ Start \/ StopFlag \/ StopPut \/ StopReturn
    \/ Tick

SpecLog == InitLog /\ [][NextLog]_vars

\* Construction on a disk with leftover folders, uploads that may fail,
\* repeated start()/stop(), the end of the process and the next process.
InitRestart ==
    InitWith([Limits EXCEPT !.records = 0], Leftovers, BOOLEAN, BOOLEAN)

NextRestart ==
    \/ Uploader \/ UploaderFails
    \/ Start \/ StopFlag \/ StopPut \/ StopReturn
    \/ Exit \/ Kill \/ Restart \/ Tick

SpecRestart == InitRestart /\ [][NextRestart]_vars

\* start() called again after stop() in one process, with upload disabled:
\* the producers and the writer threads of both calls.
InitAgain ==
    InitWith([Limits EXCEPT !.runs = 0, !.shots = 0, !.ticks = 0], {{}},
             {FALSE}, {FALSE})

NextAgain ==
    \/ LogEvent \/ LogProcesses
    \/ EventWriter \/ ProcessWriter
    \/ Start \/ StopFlag \/ StopPut \/ StopReturn

SpecAgain == InitAgain /\ [][NextAgain]_vars

\* The process monitor between start() and stop().
InitPoll ==
    InitWith([Limits EXCEPT !.runs = 0, !.starts = 1, !.records = 0,
                            !.shots = 0, !.ticks = 0], {{}}, {FALSE}, {FALSE})

NextPoll == Poll \/ Start \/ StopFlag \/ StopPut \/ StopReturn

SpecPoll == InitPoll /\ [][NextPoll]_vars

\* The end-to-end scenario: events only, the size threshold out of reach,
\* upload disabled, one start() and stop(), then main returns.
ScenarioMaxSize == ScenarioEvents + 1

InitScenario ==
    InitCfg([Limits EXCEPT !.runs = 0, !.starts = 1, !.snaps = 0, !.shots = 0,
                           !.events = ScenarioEvents,
                           !.records = ScenarioEvents,
                           !.ticks = ScenarioTicks],
            {{}}, {FALSE}, {FALSE}, ScenarioInterval, ScenarioMaxSize)

NextScenario ==
    \/ LogEvent \/ EventWriter
    \/ Start \/ StopFlag \/ StopPut \/ StopReturn \/ Exit
    \/ Tick

SpecScenario == InitScenario /\ [][NextScenario]_vars

\* The upload worker over process restarts: one start() and stop() per
\* process, uploads and cleanups that may fail, a process that may be killed
\* at any point.
InitReupload ==
    InitWith([Limits EXCEPT !.records = 0, !.starts = 1], {{}}, {TRUE}, {FALSE})

NextReupload ==
    \/ Uploader \/ UploaderFails
    \/ Start \/ StopFlag \/ StopPut \/ StopReturn
    \/ Kill \/ Restart \/ Tick

SpecReupload == InitReupload /\ [][NextReupload]_vars

\* Capture with upload enabled, disabled, or switched off by __init__:
\* input events, the screenshot loop, the event writer and the upload
\* worker, around one start() and stop().
InitCapture ==
    InitWith([Limits EXCEPT !.starts = 1, !.runs = 0, !.snaps = 0], {{}},
             BOOLEAN, {FALSE})

NextCapture ==
    \/ LogEvent \/ EventWriter \/ Shooter \/ Uploader
    \/ Start \/ StopFlag \/ StopPut \/ StopReturn
    \/ Tick

SpecCapture == InitCapture /\ [][NextCapture]_vars

\* The logging pipeline beside an upload attempt that never returns: the
\* worker takes a folder and compresses it, and upload_local_file blocks.
\* The writer threads are scheduled fairly; the worker is not.
InitStalled ==
    InitWith([Limits EXCEPT !.starts = 1, !.runs = 0, !.shots = 0], {{}},
             {TRUE}, {FALSE})

UploadStalls == \E g \in Gen : UpGet(g) \/ UpCompress(g)

NextStalled ==
    \/ LogEvent \/ LogProcesses
    \/ EventWriter \/ ProcessWriter \/ UploadStalls
    \/ Start \/ StopFlag \/ StopPut \/ StopReturn
    \/ Tick

SpecStalled ==
    /\ InitStalled
    /\ [][NextStalled]_vars
    /\ WF_vars(EventWriter)
    /\ WF_vars(ProcessWriter)

\* Shutdown while folders are uploaded: stop(), once called, runs to its end
\* (its waits have timeouts); no thread of the upload is scheduled fairly.
InitShutdown ==
    InitWith([Limits EXCEPT !.starts = 1, !.runs = 0, !.shots = 0, !.snaps = 0],
             {{}}, BOOLEAN, {FALSE})

NextShutdown ==
    \/ LogEvent
    \/ EventWriter \/ Uploader \/ UploaderFails
    \/ Start \/ StopFlag \/ StopPut \/ StopReturn
    \/ Tick

SpecShutdown ==
    /\ InitShutdown
    /\ [][NextShutdown]_vars
    /\ WF_vars(StopPut \/ StopReturn)

\* All producers and the two consumers, without upload.
InitProducers ==
    InitWith([Limits EXCEPT !.starts = 1, !.runs = 0], {{}}, {FALSE}, {FALSE})

NextProducers ==
    \/ LogEvent \/ LogProcesses
    \/ EventWriter \/ ProcessWriter \/ Shooter
    \/ Start \/ StopFlag \/ StopPut \/ StopReturn
    \/ Tick

SpecProducers == InitProducers /\ [][NextProducers]_vars

\* One run of main() with the two queues and their consumers: start(), the
\* producers, stop(), return. The writer threads are scheduled fairly.
InitDrain ==
    InitWith([Limits EXCEPT !.starts = 1, !.runs = 0, !.shots = 0, !.ticks = 0],
             {{}}, {FALSE}, {FALSE})

NextDrain ==
    \/ LogEvent \/ LogProcesses
    \/ EventWriter \/ ProcessWriter
    \/ Start \/ StopFlag \/ StopPut \/ StopReturn
    \/ Exit

SpecDrain ==
    /\ InitDrain
    /\ [][NextDrain]_vars
    /\ WF_vars(EventWriter)
    /\ WF_vars(ProcessWriter)

\* The event queue over start(), stop() and start() again, with time
\* rotations between the writes; upload disabled.
InitAgainTimed ==
    InitWith([Limits EXCEPT !.runs = 0, !.shots = 0, !.snaps = 0], {{}},
             {FALSE}, {FALSE})

NextAgainTimed ==
    \/ LogEvent \/ EventWriter
    \/ Start \/ StopFlag \/ StopPut \/ StopReturn
    \/ Tick

SpecAgainTimed == InitAgainTimed /\ [][NextAgainTimed]_vars

\* The two lock-state detectors of one process and the events they put on
\* the event queue, which no writer drains here.
InitLockState ==
    InitWith([Limits EXCEPT !.runs = 0, !.events = 0, !.shots = 0, !.snaps = 0,
                            !.ticks = 0],
             {{}}, {FALSE}, {FALSE})

NextLockState ==
    \/ LockMonitor \/ ShotFailure
    \/ Start \/ StopFlag \/ StopPut \/ StopReturn

SpecLockState == InitLockState /\ [][NextLockState]_vars

\* Process snapshots of any size over start(), stop() and start() again,
\* with time rotations between the writes; upload disabled.
InitSnapshots ==
    InitWith([Limits EXCEPT !.runs = 0, !.events = 0, !.shots = 0,
                            !.snaps = MaxRecords],
             {{}}, {FALSE}, {FALSE})

NextSnapshots ==
    \/ LogProcesses \/ ProcessWriter
    \/ \E g \in Gen : PwFlush(g) \/ PwClose(g)
    \/ Start \/ StopFlag \/ StopPut \/ StopReturn
    \/ Tick

SpecSnapshots == InitSnapshots /\ [][NextSnapshots]_vars

\* ---------------------------------------------------------------- claims
\* a step that adds a record or an image to folder s
WrittenTo(s) == FolderSize(files', s) > FolderSize(files, s)

\* the records in the two log files of folder s
Logged(s) ==
    Range(files[s].events) \cup
    { [type |-> "snapshot", id |-> l[1]] : l \in Range(files[s].procs) }

\* how often folder s is on the upload queue q
Occurrences(q, s) == Cardinality({ i \in DOMAIN q : q[i] = s })

\* a step in which a session getter returns to its caller
GetterReturns ==
    /\ session_lock # NoOwner
    /\ session_lock' = NoOwner
    /\ main' # "exited"

\* C1: no append and no image save lands in a session folder after a rotation
\* has replaced it as the current session (also when the path was resolved
\* before the rotation).
C1_SealedNeverWritten ==
    [][\A s \in Sessions : WrittenTo(s) => s \notin hist.sealed]_vars

\* C2: the upload queue never contains the session that is currently active.
C2_QueueExcludesActive ==
    \A i \in DOMAIN completed_folders_queue :
        completed_folders_queue[i] # current_session_dir

\* C3: whenever a session folder is deleted, everything that was written into
\* it is in the archive uploaded for it.
C3_DeletedOnlyIfArchived ==
    [][\A s \in Sessions :
         (s \in dirs /\ s \notin dirs') =>
             /\ remote[RemoteKey(s)].there
             /\ Contents(files[s]) \subseteq remote[RemoteKey(s)].items]_vars

\* C4: with upload enabled, a rotation that replaces the active session S
\* (whose folder exists) leaves S on the upload queue when it returns.
C4_RotationEnqueuesSealed ==
    [][( /\ upload_to_b2
         /\ current_session_dir # None
         /\ current_session_dir' # None
         /\ current_session_dir' # current_session_dir
         /\ current_session_dir \in dirs )
       => \E i \in DOMAIN completed_folders_queue' :
              completed_folders_queue'[i] = current_session_dir]_vars

\* C5: every getter call returns a path into the session that is current when
\* it returns (the one before or the one after a rotation it spans, never a
\* third one), and when it returns that folder and its screenshots
\* subdirectory exist.
C5_GetterReturnsExistingSession ==
    [][GetterReturns =>
         /\ \A g \in Gen :
              /\ ew'[g].path # ew[g].path => ew'[g].path = current_session_dir'
              /\ pw'[g].path # pw[g].path => pw'[g].path = current_session_dir'
              /\ ss'[g].path # ss[g].path => ss'[g].path = current_session_dir'
         /\ current_session_dir' \in dirs'
         /\ current_session_dir' \in shotdirs']_vars

\* C6: a record enqueued after a rotation away from session A has returned is
\* never appended to A's events.jsonl or processes.jsonl.
C6_NoCrossSessionWrites ==
    \A s \in Sessions : \A r \in Logged(s) : <<r, s>> \notin hist.stale

\* C7: with upload enabled, the constructor enqueues every folder it found on
\* disk and does not enqueue the session it made current.
C7_ReconciliationEnqueuesAllLeftovers ==
    (main = "ready" /\ starts = 0 /\ upload_to_b2) =>
        /\ hist.found \subseteq Range(completed_folders_queue)
        /\ current_session_dir \notin Range(completed_folders_queue)

\* C8: a failed transfer leaves the session folder on disk, and the next
\* process start with upload enabled puts that folder (if it is still on
\* disk) on the upload queue.
C8_FailedUploadRequeuedOnRestart ==
    [][/\ \A g \in Gen :
            (up[g].pc = "upload" /\ up'[g].pc = "idle") => up[g].folder \in dirs'
       /\ \A s \in Sessions :
            ( /\ main = "exited" /\ main' = "ready" /\ upload_to_b2'
              /\ <<s, "upload">> \in hist.failed
              /\ s \in dirs )
            => s \in Range(completed_folders_queue')]_vars

\* C9: within one run, a session whose upload attempt failed is not put on the
\* upload queue again.
C9_NoRequeueAfterFailure ==
    [][\A s \in Sessions :
         ( /\ main # "exited" /\ main' # "exited"
           /\ \E step \in {"compress", "upload"} : <<s, step>> \in hist.failed )
         => Occurrences(completed_folders_queue', s)
                <= Occurrences(completed_folders_queue, s)]_vars

\* C10: when a run that went through start() and stop() ends, every record
\* that was enqueued has been appended to a log file or dropped with a
\* printed error.
C10_EveryRecordSettled ==
    (main = "exited" /\ ~hist.killed) =>
        hist.enq \subseteq (hist.appended \cup hist.dropped)

\* C11: a record that a writer has taken off its queue is in a log file when
\* that writer gets back to its loop condition.
C11_DequeuedRecordWritten ==
    [][\A g \in Gen :
         /\ (ew[g].pc = "write" /\ ew'[g].pc = "idle")
                => ew[g].rec \in hist.appended'
         /\ (pw[g].pc = "write" /\ pw'[g].pc = "idle")
                => pw[g].rec \in hist.appended']_vars

\* the writer threads of one kind that are inside their loop
Consuming(w) == { g \in Gen : w[g].pc \in {"idle", "resolve", "ret", "write"} }

\* C12: at any instant at most one event_writer thread and at most one
\* process_writer thread are consuming their queue.
C12_SingleConsumer ==
    /\ Cardinality(Consuming(ew)) <= 1
    /\ Cardinality(Consuming(pw)) <= 1

\* how many of the events evs are of the given kind for the given pid
EventsFor(evs, kind, pid) ==
    Cardinality({ i \in DOMAIN evs : evs[i] = [type |-> kind, id |-> pid] })

\* the name each pid of a process list carries
NamesByPid(c) == { <<c[i].pid, c[i].name>> : i \in DOMAIN c }

\* C13: one poll with previous mapping P and current list C emits exactly one
\* process_started per pid in C and not in P, exactly one process_stopped per
\* pid in P and not in C, no other process event, and leaves C keyed by pid
\* as the remembered mapping.
C13_ProcessDiff ==
    [][used'.polls # used.polls =>
         LET P == PidsOf(previous_processes)
             C == PidsOf(hist'.polled)
             new == SubSeq(event_queue', Len(event_queue) + 1, Len(event_queue'))
         IN  /\ \A pid \in C \ P : EventsFor(new, "process_started", pid) = 1
             /\ \A pid \in P \ C : EventsFor(new, "process_stopped", pid) = 1
             /\ Len(new) = Cardinality(C \ P) + Cardinality(P \ C)
             /\ NamesByPid(previous_processes') = NamesByPid(hist'.polled)]_vars

\* the number of events each session folder on disk holds, in creation order
EventsPerSession ==
    LET order == SortedSeq(dirs)
    IN  [ i \in DOMAIN order |-> Len(files[order[i]].events) ]

\* C14: when ScenarioEvents = 5 events have been enqueued and written and the
\* run has shut down, there are three sessions that hold 2, 2 and 1 events
\* in creation order (their identifiers distinct and increasing).
C14_ScenarioTwoTwoOne ==
    ( /\ main = "exited"
      /\ Cardinality(hist.enq) = ScenarioEvents
      /\ hist.enq \subseteq hist.appended )
    => EventsPerSession = <<2, 2, 1>>

\* the file names under which the bucket holds an archive of session s
ObjectsOf(r, s) == { k \in RemoteKeys : r[k].there /\ r[k].folder = s }

\* C15: every upload of a session puts its archive under the file name
\* derived from the session name alone and touches no other object, so that
\* after any number of uploads the bucket holds exactly one object for the
\* session, under that name.
C15_IdempotentUpload ==
    [][\A g \in Gen :
         (up[g].pc = "upload" /\ up'[g].pc = "cleanup") =>
             LET s == up[g].folder
             IN  /\ remote'[RemoteKey(s)] = zips[s]
                 /\ ObjectsOf(remote', s) = {RemoteKey(s)}
                 /\ \A k \in RemoteKeys \ {RemoteKey(s)} :
                        remote'[k] = remote[k]]_vars

\* C15 happens: a session has been uploaded a second time with the contents
\* the bucket already held for it
C15_Witness ==
    \E s \in hist.again :
        /\ remote[RemoteKey(s)].there
        /\ ObjectsOf(remote, s) = {RemoteKey(s)}

C17_DeletedOnlyIfConfigured ==
    [][\A s \in Sessions :
         (s \in dirs /\ s \notin dirs') => delete_after_upload]_vars

\* a step in which worker g leaves a failed transfer
TransferFailed(g) == up[g].pc = "upload" /\ up'[g].pc = "idle"

C19_FailedCompressAborts ==
    [][hist'.compressfails > hist.compressfails =>
         \A g \in Gen :
             up'[g] # up[g] =>
                 LET s == up[g].folder
                 IN  /\ up'[g].pc = "idle"
                     /\ remote' = remote
                     /\ dirs' = dirs /\ shotdirs' = shotdirs
                     /\ files' = files
                     /\ <<s, "compress">> \in hist'.failed
                     /\ completed_folders_queue' = completed_folders_queue]_vars

\* C19 happens: after a failed compression of one session the worker of the
\* same run is processing another one
C19_Witness ==
    \E s \in Sessions, g \in Gen :
        /\ <<s, "compress">> \in hist.failed
        /\ up[g].pc \in {"compress", "upload", "cleanup"}
        /\ up[g].folder # s
        /\ s \in dirs

\* C20: when __init__ has switched a configured upload off (credentials
\* missing or _init_b2 failed), then throughout the run upload is disabled,
\* nothing is on the upload queue, no upload worker exists, nothing has been
\* archived or uploaded, and every session folder is still on disk.
C20_FaultDisablesUpload ==
    b2fault =>
        /\ ~upload_to_b2
        /\ completed_folders_queue = <<>>
        /\ \A g \in Gen : up[g] = NoWorker
        /\ \A s \in Sessions :
              /\ zips[s] = NoArchive
              /\ remote[RemoteKey(s)] = NoArchive
        /\ hist.found \cup hist.sealed \subseteq dirs
        /\ main # "exited" => current_session_dir \in dirs

\* C20 happens: with upload switched off by __init__ the tracker has
\* rotated, written a record and saved a screenshot
C20_Witness ==
    /\ b2fault
    /\ hist.sealed # {}
    /\ hist.appended # {}
    /\ \E s \in Sessions : files[s].shots # <<>>

\* the records the producers can put on the two queues
QueuedRecords ==
    [type : {"input"}, id : 1..(MaxEvents + 1)] \cup
    [type : {"snapshot"}, id : 1..(MaxSnaps + 1)]

\* some writer thread of the queue that record r goes to is in its loop
WriterAlive(r) ==
    IF r.type = "snapshot" THEN Consuming(pw) # {} ELSE Consuming(ew) # {}

\* C21: whatever the upload worker does, and also when an upload attempt
\* never returns, every record that is queued while its writer thread runs
\* is eventually appended to a log file.
C21_StalledUploadDoesNotBlock ==
    \A r \in QueuedRecords :
        (r \in hist.enq /\ WriterAlive(r)) ~> (r \in hist.appended)

\* C21 happens: an upload attempt is stalled in the transfer and a record has
\* been appended to the folder after it was compressed
C21_Witness ==
    \E g \in Gen :
        /\ up[g].pc = "upload"
        /\ ~(Contents(files[up[g].folder]) \subseteq zips[up[g].folder].items)

\* a thread enters a session getter: it takes the session lock
GetterCall == session_lock = NoOwner /\ session_lock' # NoOwner

\* C22: a getter call that finds the active session's directory missing
\* completes, and leaves as current session a directory that it has just
\* created, with its screenshots subdirectory.
C22_MissingDirectoryRecovered ==
    [][(GetterCall /\ (current_session_dir = None \/ current_session_dir \notin dirs))
        => /\ current_session_dir' \in dirs'
           /\ current_session_dir' \notin dirs
           /\ current_session_dir' \in shotdirs'
           /\ files'[current_session_dir'] = EmptyFiles]_vars

\* C22 happens: a getter call has found the directory missing
C22_Witness == session_lock # NoOwner /\ hist.why = "missing"

\* the age of the active session has reached the rotation interval
IntervalElapsed ==
    /\ session_start_time # None
    /\ now - session_start_time >= folder_rotation_interval

\* C23: a getter call made when the active session's age has reached
\* folder_rotation_interval creates a new current session, different from the
\* old one, which becomes the previous session; and the session any getter
\* call leaves as current is younger than the interval at that call.
C23_TimeRotation ==
    [][GetterCall =>
        /\ now - session_start_time' < folder_rotation_interval
        /\ IntervalElapsed =>
              /\ current_session_dir' = SessionName(now)
              /\ current_session_dir' # current_session_dir
              /\ current_session_dir' \in dirs'
              /\ previous_session_dir' = current_session_dir
              /\ session_start_time' = now]_vars

\* C23 happens: a getter call has rotated because the interval had elapsed
C23_Witness == session_lock # NoOwner /\ hist.why = "time"

\* the active session exists, is younger than the interval and its files
\* have reached folder_max_size_bytes
SizeReached ==
    /\ current_session_dir # None /\ current_session_dir \in dirs
    /\ session_start_time # None
    /\ ~IntervalElapsed
    /\ FolderSize(files, current_session_dir) >= folder_max_size_bytes

\* C24: a getter call made when the active session's files have reached
\* folder_max_size_bytes leaves as current session a different directory that
\* the call has created and whose size is below the threshold.
C24_SizeRotation ==
    [][(GetterCall /\ SizeReached) =>
        /\ current_session_dir' # current_session_dir
        /\ current_session_dir' \notin dirs
        /\ current_session_dir' \in dirs'
        /\ FolderSize(files', current_session_dir') < folder_max_size_bytes]_vars

\* C25: a getter call never leaves as current session a session that an
\* earlier getter call has rotated away from.
C25_SealedNeverCurrentAgain ==
    [][GetterCall =>
        current_session_dir' \notin (hist.sealed \cup hist.rotated)]_vars

\* C26: a getter call that rotates leaves a current session whose name sorts
\* strictly after the name of the session that was current before, also when
\* the clock second has not changed since that session was created.
C26_RotationNamesIncrease ==
    [][(/\ GetterCall
        /\ current_session_dir # None
        /\ RotationReason(SessState, now, files) # "none")
        => current_session_dir' > current_session_dir]_vars

\* the sessions this run has created
RunSessions ==
    (hist.sealed \cup hist.rotated \cup {current_session_dir}) \ {None}

\* stop() has returned
Stopped == main = "ready" /\ starts >= 1 /\ ~running

\* C27: stop(), once it has cleared the running flag, returns, whether or not
\* the upload queue is drained; and when it has returned, every session of
\* the run that no upload attempt has uploaded has its directory on disk.
C27_ShutdownGrace ==
    /\ (main \in {"stop_put", "stop_wait"}) ~> Stopped
    /\ [](Stopped =>
            \A s \in RunSessions : s \notin hist.uploaded => s \in dirs)

\* C27 happens: stop() has returned with a folder still queued and with a
\* session that was not uploaded
C27_Witness ==
    /\ Stopped
    /\ completed_folders_queue # <<>>
    /\ RunSessions \ hist.uploaded # {}
    /\ hist.uploaded # {}

\* the events of one producer in the order in which file f holds them
Written(f, s, type) ==
    SelectSeq(f[s].events, LAMBDA r : r.type = type)

\* C28: the events that one producer has enqueued stand in every events file
\* in the order in which they were enqueued.
C28_WrittenInQueueOrder ==
    \A s \in Sessions :
        LET w == Written(files, s, "input")
        IN  \A i, j \in 1..Len(w) : i < j => w[i].id < w[j].id

\* a step of a producer: the screenshot loop moves or a record is enqueued
ProducerStep ==
    \/ ss' # ss
    \/ Len(event_queue') > Len(event_queue)
    \/ Len(process_queue') > Len(process_queue)

\* the two log files of every session
LogsOf(f) == [s \in Sessions |-> <<f[s].events, f[s].procs>>]

\* a step of a consumer thread that appends to a log file
ConsumerWrite ==
    \/ \E g \in Gen : ew[g].pc = "write" /\ ew'[g].pc = "idle"
    \/ \E g \in Gen : pw[g].pc = "write" /\ pw'[g].pc = "idle"

\* C29 as stated: no step of a producer changes the files of a session.
C29_ProducersOnlyEnqueue ==
    [][ProducerStep => files' = files]_vars

\* C29: no step of a producer changes events.jsonl or processes.jsonl of any
\* session, and these grow only in steps of the two queue consumers; the only
\* file a producer writes is the image that the screenshot loop saves into
\* the screenshots directory its getter call returned.
C29_ProducersLeaveLogs ==
    [][/\ ProducerStep =>
            /\ LogsOf(files') = LogsOf(files)
            /\ files' # files =>
                  \E g \in Gen :
                      /\ ss[g].pc = "save"
                      /\ files' = [files EXCEPT ![ss[g].path] = Saved(@, ss[g].shot)]
       /\ (\E s \in Sessions :
              \/ Len(files'[s].events) > Len(files[s].events)
              \/ Len(files'[s].procs) > Len(files[s].procs))
            => ConsumerWrite]_vars

\* C29 happens: the screenshot loop has saved an image and both consumers
\* have appended a record
C29_Witness ==
    \E s \in Sessions, t \in Sessions, u \in Sessions :
        /\ files[s].shots # <<>>
        /\ files[t].events # <<>>
        /\ files[u].procs # <<>>

\* writer thread w[g] is gone in the next state: it has left its loop or it
\* has ended with the process
Ends(w, g) ==
    /\ w[g].pc \in {"idle", "resolve", "ret", "write"}
    /\ w'[g].pc \notin {"idle", "resolve", "ret", "write"}

\* C30: once stop() has cleared the running flag for good, every writer
\* thread that was started leaves its loop, and a writer thread ends only
\* when its queue is empty and it holds no record.
C30_ConsumersDrainAndTerminate ==
    /\ (<>[](starts >= 1 /\ ~running)) =>
          <>(\A g \in 1..starts : ew[g].pc = "done" /\ pw[g].pc = "done")
    /\ [][\A g \in Gen :
            /\ Ends(ew, g) => event_queue = <<>> /\ ew[g].rec = NoRec
            /\ Ends(pw, g) => process_queue = <<>> /\ pw[g].rec = NoRec]_vars

\* the upload worker takes the head of completed_folders_queue
Dequeues ==
    /\ completed_folders_queue # <<>>
    /\ completed_folders_queue' = Tail(completed_folders_queue)
    /\ main' = main

\* C31: when the upload worker dequeues a folder that no longer exists, that
\* step starts no upload attempt and changes nothing on disk or in the
\* bucket, and the worker is ready for the next queued folder.
C31_MissingFolderSkipped ==
    [][(Dequeues /\ Head(completed_folders_queue) \notin dirs) =>
        /\ up' = up
        /\ \A g \in Gen : up'[g].folder # Head(completed_folders_queue)
        /\ zips' = zips /\ remote' = remote
        /\ dirs' = dirs /\ files' = files]_vars

\* C31 happens: the worker has skipped a folder and is back at the head of
\* its loop
C31_Witness ==
    /\ hist.skipped # {}
    /\ \E g \in Gen : up[g].pc = "idle"

\* thread w[g] fails to append the record it holds: it is dropped in this step
Drops(w, g) ==
    /\ w[g].pc = "write"
    /\ w[g].rec \notin hist.dropped
    /\ w[g].rec \in hist'.dropped

\* C32: a writer step whose append fails reports the record as dropped, writes
\* nothing, puts nothing back on a queue and leaves the thread at the head of
\* its loop without the record; a dropped record is never appended.
C32_WriterErrorsContained ==
    /\ [][\A g \in Gen :
            /\ Drops(ew, g) =>
                  /\ ew'[g] = [pc |-> "idle", rec |-> NoRec, path |-> None]
                  /\ files' = files
                  /\ event_queue' = event_queue
            /\ Drops(pw, g) =>
                  /\ pw'[g] = [pc |-> "idle", rec |-> NoRec, path |-> None]
                  /\ files' = files
                  /\ process_queue' = process_queue]_vars
    /\ [](hist.dropped \cap hist.appended = {})

\* C32 happens: an event and a snapshot have each been dropped by a writer
C32_Witness ==
    /\ \E r \in hist.dropped : r.type = "input"
    /\ \E r \in hist.dropped : r.type = "snapshot"

\* C33: with upload enabled, when stop() has returned, every session of the
\* run whose directory is on disk has been put on the upload queue by a
\* rotation or by stop().
C33_NoSealedSessionSkipped ==
    (Stopped /\ upload_to_b2) =>
        \A s \in RunSessions : s \in dirs => s \in hist.queued

\* C34: every screenshot event in a session's events.jsonl names an image
\* that is in the screenshots directory of that same session.
C34_ScreenshotEventWithItsImage ==
    \A s \in Sessions :
        \A r \in Range(files[s].events) :
            r.type = "screenshot" => r.id \in Range(files[s].shots)

\* C35: a step of a running process that puts a session on the upload queue
\* puts it there once, and the session has not been put there before by a
\* rotation or by stop().
C35_EnqueuedAtMostOnce ==
    [][\A s \in Sessions :
         ( /\ main' # "exited"
           /\ Occurrences(completed_folders_queue', s)
                 > Occurrences(completed_folders_queue, s) )
         => /\ s \notin hist.queued
            /\ Occurrences(completed_folders_queue', s)
                 = Occurrences(completed_folders_queue, s) + 1]_vars

\* C36: of two events of one producer, the one enqueued (and so dequeued)
\* later is never in the events file of a session created before the session
\* that holds the earlier one.
C36_SessionsMonotoneInQueueOrder ==
    \A s1 \in Sessions, s2 \in Sessions :
        \A r1 \in Range(Written(files, s1, "input")) :
            \A r2 \in Range(Written(files, s2, "input")) :
                r1.id < r2.id => s1 <= s2

\* the process_started and process_stopped events emitted for pid, in the
\* order in which they were enqueued
ProcessEventsOf(evs, pid) ==
    SelectSeq(evs, LAMBDA e : /\ e.id = pid
                              /\ e.type \in {"process_started", "process_stopped"})

\* C37: for every pid the process events emitted so far alternate, beginning
\* with process_started, and the pid is in the remembered mapping exactly
\* when its last event is a process_started.
C37_StartStopAlternate ==
    \A pid \in Pids :
        LET evs == ProcessEventsOf(event_queue, pid)
        IN  /\ \A i \in DOMAIN evs :
                  evs[i].type = IF i % 2 = 1 THEN "process_started"
                                ELSE "process_stopped"
            /\ pid \in PidsOf(previous_processes) <=> Len(evs) % 2 = 1

\* C37 happens: a pid has been reported as started and as stopped, and
\* another pid is remembered
C37_Witness ==
    /\ \E pid \in Pids : Len(ProcessEventsOf(event_queue, pid)) >= 2
    /\ previous_processes # << >>

\* C38: in the sequence of events enqueued, screen_locked and
\* screen_unlocked strictly alternate: no two consecutive lock-state events
\* have the same type, whatever the interleaving of the monitor loop and the
\* screenshot failure branch.
C38_LockEventsAlternate ==
    LET evs == SelectSeq(event_queue,
                         LAMBDA e : e.type \in {"screen_locked", "screen_unlocked"})
    IN  \A i \in 1..(Len(evs) - 1) : evs[i].type # evs[i + 1].type

\* C39: the lines of one process snapshot are in the processes.jsonl of one
\* session, one line per process, next to each other and in list order: a
\* line that is not the last written line of its snapshot is followed by
\* the next line of the same snapshot, and no snapshot has lines in two
\* sessions.
C39_SnapshotContiguous ==
    /\ \A s \in Sessions :
         LET f == files[s].procs
         IN  \A i \in DOMAIN f :
                 /\ (i = 1 \/ f[i - 1][1] # f[i][1]) => f[i][2] = 1
                 /\ (\E j \in DOMAIN f : j > i /\ f[j][1] = f[i][1])
                        => f[i + 1] = <<f[i][1], f[i][2] + 1>>
    /\ \A s, t \in Sessions :
         s # t => { l[1] : l \in Range(files[s].procs) } \cap
                  { l[1] : l \in Range(files[t].procs) } = {}

====
